---------------------------- MODULE Spec2Model ----------------------------
(***************************************************************************)
(* A model of text-dedup's two deduplication engines:                      *)
(*   - text_dedup/exact_hash.py : sharded exact-hash dedup run on a        *)
(*     worker pool against one shared dict and one shared flag array;      *)
(*   - text_dedup/minhash.py    : MinHash + LSH + union-find fuzzy dedup,  *)
(*     and the (b, r) parameter sweep optimal_param;                       *)
(*   - text_dedup/utils/tokenization.py : the n-gram shingler.             *)
(* Record ids are 0-based as in the code; sequences are 1-based, so the    *)
(* record with id i is ds[i + 1].                                          *)
(***************************************************************************)
EXTENDS Integers, Sequences, FiniteSets, TLC

VARIABLES
    pc,               \* position of the driver (the stage it is in)
    ds,               \* the loaded dataset: sequence of record contents
    batch_size,       \* args.batch_size
    \* ---- exact_hash.py
    hash_func,        \* the selected content hash, as a table content -> digest
    flags,            \* shared-memory drop bitmap, id -> BOOLEAN
    shared_hash_dict, \* manager.dict(): the set of its keys (values are True)
    shard_idx,        \* loop variable of the shard loop
    workers,          \* the pool of ds_shard.map: rank -> worker state
    inserted,         \* history: ids whose record took the insert branch
    run,              \* 1: first run, 2: the run on the first run's output
    first_output,     \* what the first run saved
    \* ---- utils/tokenization.py: one call of ngrams
    sequence,         \* argument: the list of tokens
    n,                \* argument: the length of each n-gram
    min_length,       \* argument: the minimum-length guard
    ngrams_result,    \* list(ngrams(sequence, n, min_length))
    tokens,           \* the shingle set embed_func builds from the n-grams
    \* ---- minhash.py: one call of optimal_param
    num_perm,         \* args.num_perm
    loop_b,           \* loop variable b
    loop_r,           \* loop variable r
    min_error,        \* min_error
    opt,              \* opt
    errors,           \* history: candidate (b, r) -> the error computed for it
    \* ---- minhash.py: the fuzzy pipeline
    B,                \* number of bands
    R,                \* rows (signature entries) per band
    PERMUTATIONS,     \* <<a, b>>: two arrays of num_perm uint64 values
    embedded,         \* per record: [id, signatures], the band keys Hs
    HASH_TABLES,      \* per band: band key -> set of ids
    table_idx,        \* the table the clustering loop is in (from 1)
    visited,          \* the keys of that table whose bucket has been handled
    parent,           \* uf.parent
    clusters,         \* the __cluster__ column
    final_data        \* ids of the records kept

exactVars == <<hash_func, flags, shared_hash_dict, shard_idx, workers,
               inserted, run, first_output>>

ngramVars == <<sequence, n, min_length, ngrams_result, tokens>>

paramVars == <<num_perm, loop_b, loop_r, min_error, opt, errors>>

fuzzyVars == <<B, R, PERMUTATIONS, embedded, HASH_TABLES, table_idx, visited,
               parent, clusters, final_data>>

vars == <<pc, ds, batch_size, exactVars, ngramVars, paramVars, fuzzyVars>>

\* what the steps of one engine leave alone
outsideExact == <<ngramVars, paramVars, fuzzyVars>>
outsideNgrams == <<ds, batch_size, exactVars, paramVars, fuzzyVars>>
outsideParam == <<ds, batch_size, exactVars, ngramVars, fuzzyVars>>
outsideFuzzy == <<batch_size, exactVars, ngramVars, loop_b, loop_r, min_error,
                  opt, errors>>

----------------------------------------------------------------------------
(* Bounds of the model *)

\* largest corpus (LEN_DATASET)
MaxDocs == 3
\* largest args.batch_size
MaxBatch == 3
\* os.cpu_count(): size of the worker pool
NUM_PROC == 2
\* longest token list handed to ngrams
MaxTokens == 5
\* largest n-gram length
MaxNgram == 3
\* largest min_length tried besides the default
MaxGuard == 2
\* largest args.num_perm
MaxPerm == 3
\* largest value of an integral, in the unit the areas are counted in
MaxArea == 1
\* largest args.num_perm of the fuzzy pipeline
MaxSig == 2
\* args.ngram of the fuzzy pipeline
ngram == 3
\* largest number of band tables when the fingerprints are given
MaxBands == 2
\* bytes of the integers in which h * a + b is evaluated without wrap-around
Unbounded == 16

----------------------------------------------------------------------------
(* Helpers *)

Min(a, b) == IF a <= b THEN a ELSE b
Max(a, b) == IF a >= b THEN a ELSE b
SetMin(S) == CHOOSE x \in S : \A y \in S : x <= y

\* int(np.ceil(a / b))
CeilDiv(a, b) == (a + b - 1) \div b

----------------------------------------------------------------------------
(* What the variables of an engine hold while another engine is modelled *)

ResetExact(d) ==
    /\ flags = [i \in 0 .. (Len(d) - 1) |-> FALSE]
    /\ shared_hash_dict = {}
    /\ shard_idx = 0
    /\ workers = <<>>
    /\ inserted = {}

IdleExact ==
    /\ hash_func = <<>>
    /\ ResetExact(<<>>)
    /\ run = 1
    /\ first_output = <<>>

IdleNgrams ==
    /\ sequence = <<>>
    /\ n = 0
    /\ min_length = 0
    /\ ngrams_result = <<>>
    /\ tokens = {}

IdleParam ==
    /\ num_perm = 0
    /\ loop_b = 0
    /\ loop_r = 0
    /\ min_error = 0
    /\ opt = <<0, 0>>
    /\ errors = <<>>

IdleFuzzy ==
    /\ B = 0
    /\ R = 0
    /\ PERMUTATIONS = <<>>
    /\ embedded = <<>>
    /\ HASH_TABLES = <<>>
    /\ table_idx = 0
    /\ visited = {}
    /\ parent = <<>>
    /\ clusters = <<>>
    /\ final_data = <<>>

----------------------------------------------------------------------------
(* utils/tokenization.py: ngrams, and the shingle set of embed_func *)

\* a token is a string, modelled as its sequence of characters; splitting
\* on NON_ALPHA also yields empty tokens
TokenPool == {<<>>, <<"a">>, <<"b">>}

\* min_length: int = 5
DefaultMinLength == 5

Range(s) == {s[i] : i \in DOMAIN s}

\* the iterator left after next(sub_iterable, None) was called k times
Skip(s, k) == SubSeq(s, k + 1, Len(s))

\* iterables = tee(iter(sequence), n); the i-th copy is advanced i times
\* (i counted from 0)
Iterables(s, len) == [i \in 1 .. len |-> Skip(s, i - 1)]

RECURSIVE Shortest(_, _)
Shortest(its, i) ==
    IF i > Len(its) THEN 0
    ELSE IF i = Len(its) THEN Len(its[i])
    ELSE Min(Len(its[i]), Shortest(its, i + 1))

\* zip(*iterables): stops when the shortest iterator is exhausted
Zip(its) == [j \in 1 .. Shortest(its, 1) |-> [i \in 1 .. Len(its) |-> its[i][j]]]

\* a plausible slip: the short-input rule tested before the guard
NgramsShortFirst(s, len, guard) ==
    IF Len(s) < len THEN <<s>>
    ELSE IF Len(s) < guard THEN <<>>
    ELSE Zip(Iterables(s, len))

\* a plausible slip: the minimum-length guard left out
NgramsNoGuard(s, len, guard) ==
    IF Len(s) < len THEN <<s>>
    ELSE Zip(Iterables(s, len))

\* ngrams(sequence, n, min_length), as a list
ngrams(s, len, guard) ==
    IF Len(s) < guard THEN <<>>
    ELSE IF Len(s) < len THEN <<s>>
    ELSE Zip(Iterables(s, len))

\* " ".join(t)
RECURSIVE Join(_)
Join(t) ==
    IF Len(t) = 0 THEN <<>>
    ELSE IF Len(t) = 1 THEN t[1]
    ELSE t[1] \o <<" ">> \o Join(Tail(t))

\* {" ".join(t) for t in grams}
ShingleSet(grams) == {Join(grams[j]) : j \in DOMAIN grams}

InitNgrams ==
    /\ pc = "call"
    /\ \E len \in 0 .. MaxTokens : sequence \in [1 .. len -> TokenPool]
    /\ n \in 1 .. MaxNgram
    /\ min_length \in (0 .. MaxGuard) \cup {DefaultMinLength}
    /\ ngrams_result = <<>>
    /\ tokens = {}
    /\ ds = <<>>
    /\ batch_size = 1
    /\ IdleExact
    /\ IdleParam
    /\ IdleFuzzy

\* tokens = {" ".join(t) for t in ngrams(sequence, n, min_length)}
CallNgrams ==
    /\ pc = "call"
    /\ ngrams_result' = ngrams(sequence, n, min_length)
    /\ tokens' = ShingleSet(ngrams(sequence, n, min_length))
    /\ pc' = "ret"
    /\ UNCHANGED <<sequence, n, min_length, outsideNgrams>>

----------------------------------------------------------------------------
(* minhash.py: optimal_param *)

\* false_positive_weight: float = 0.5, false_negative_weight: float = 0.5.
\* The model counts weights in units of 0.5, so that errors are integers.
false_positive_weight == 1
false_negative_weight == 1

\* scipy's quad returns some area; false_positive_probability and
\* false_negative_probability return it unchanged
integrate == 0 .. MaxArea

\* float("inf"): above every error the sweep can compute
Infinity == MaxArea * (false_positive_weight + false_negative_weight) + 1

\* max_r = int(num_perm / b)
MaxR(b) == num_perm \div b

\* a plausible slip: a later candidate of equal error replaces the earlier
ImprovesOrTies(error, best) == error <= best

\* if error < min_error
Improves(error, best) == error < best

InitParam ==
    /\ pc = "sweep"
    /\ num_perm \in 1 .. MaxPerm
    /\ loop_b = 1
    /\ loop_r = 1
    /\ min_error = Infinity
    /\ opt = <<0, 0>>
    /\ errors = <<>>
    /\ ds = <<>>
    /\ batch_size = 1
    /\ IdleExact
    /\ IdleNgrams
    /\ IdleFuzzy

\* one pass through the body of the inner loop, for the candidate
\* (loop_b, loop_r), and the step of the two loops to the next candidate
SweepStep ==
    /\ pc = "sweep"
    /\ loop_b <= num_perm
    /\ \E fp \in integrate, fn \in integrate :
          LET error == fp * false_positive_weight + fn * false_negative_weight
          IN /\ \/ /\ Improves(error, min_error)
                   /\ min_error' = error
                   /\ opt' = <<loop_b, loop_r>>
                \/ /\ ~Improves(error, min_error)
                   /\ UNCHANGED <<min_error, opt>>
             /\ errors' = errors @@ (<<loop_b, loop_r>> :> error)
    /\ IF loop_r < MaxR(loop_b)
       THEN loop_r' = loop_r + 1 /\ loop_b' = loop_b
       ELSE loop_r' = 1 /\ loop_b' = loop_b + 1
    /\ UNCHANGED <<pc, num_perm, outsideParam>>

\* return opt
ReturnOpt ==
    /\ pc = "sweep"
    /\ loop_b > num_perm
    /\ pc' = "ret"
    /\ UNCHANGED <<paramVars, outsideParam>>

NextParam == SweepStep \/ ReturnOpt

SpecParam == InitParam /\ [][NextParam]_vars

----------------------------------------------------------------------------
(* minhash.py: numpy's uint64 arithmetic.  An integer is the sequence of    *)
(* its bytes, lowest first; an operation of `width` bytes drops the carry   *)
(* out of the highest byte, as numpy's fixed-width integers do.             *)

\* the values of one byte
ByteRange == 256
\* dtype=np.uint64: bytes of a value
U64 == 8

Digit(x, i) == IF i \in DOMAIN x THEN x[i] ELSE 0

RECURSIVE Carry(_, _, _)
Carry(cols, i, c) ==
    IF i > Len(cols) THEN <<>>
    ELSE <<(cols[i] + c) % ByteRange>>
            \o Carry(cols, i + 1, (cols[i] + c) \div ByteRange)

RECURSIVE Column(_, _, _, _)
Column(x, y, k, i) ==
    IF i > k THEN 0
    ELSE Digit(x, i) * Digit(y, k + 1 - i) + Column(x, y, k, i + 1)

\* x * y and x + y in integers of `width` bytes
Mul(x, y, width) == Carry([k \in 1 .. width |-> Column(x, y, k, 1)], 1, 0)
Add(x, y, width) == Carry([k \in 1 .. width |-> Digit(x, k) + Digit(y, k)], 1, 0)

\* MAX_HASH = np.uint64((1 << 32) - 1)
MAX_HASH == <<255, 255, 255, 255, 0, 0, 0, 0>>
\* MERSENNE_PRIME = np.uint64((1 << 61) - 1)
MERSENNE_PRIME == <<255, 255, 255, 255, 255, 255, 255, 31>>

IsZero(x) == \A i \in DOMAIN x : x[i] = 0
SameValue(x, y) == \A i \in DOMAIN x \cup DOMAIN y : Digit(x, i) = Digit(y, i)

\* the low 61 bits of x, and x shifted right by 61 bits
Low61(x, width) ==
    [i \in 1 .. width |->
        IF i < 8 THEN Digit(x, i) ELSE IF i = 8 THEN Digit(x, 8) % 32 ELSE 0]
High61(x, width) ==
    [j \in 1 .. width |-> (Digit(x, 7 + j) \div 32) + (Digit(x, 8 + j) % 32) * 8]

\* x % MERSENNE_PRIME.  As 2^61 = 1 modulo the prime, x is congruent to the
\* sum of its low 61 bits and the rest shifted down.
RECURSIVE ModMersenne(_, _)
ModMersenne(x, width) ==
    IF IsZero(High61(x, width))
    THEN IF SameValue(x, MERSENNE_PRIME) THEN [i \in 1 .. width |-> 0] ELSE x
    ELSE ModMersenne(Add(Low61(x, width), High61(x, width), width), width)

RECURSIVE AndBits(_, _, _)
AndBits(p, q, k) ==
    IF k = 0 THEN 0
    ELSE (p % 2) * (q % 2) + 2 * AndBits(p \div 2, q \div 2, k - 1)

\* np.bitwise_and(x, y)
BitwiseAnd(x, y, width) ==
    [i \in 1 .. width |-> AndBits(Digit(x, i), Digit(y, i), 8)]

RECURSIVE LessFrom(_, _, _)
LessFrom(x, y, i) ==
    IF i = 0 THEN FALSE
    ELSE IF Digit(x, i) # Digit(y, i) THEN Digit(x, i) < Digit(y, i)
    ELSE LessFrom(x, y, i - 1)

\* x < y
Less(x, y) == LessFrom(x, y, Max(Len(x), Len(y)))

\* np.bitwise_and(((hv * a) + b) % MERSENNE_PRIME, MAX_HASH) for one shingle
\* hash and one permutation, in integers of `width` bytes
Permute(h, a, b, width) ==
    BitwiseAnd(ModMersenne(Add(Mul(h, a, width), b, width), width), MAX_HASH, width)

----------------------------------------------------------------------------
(* minhash.py: embed_func *)

\* the characters NON_ALPHA = re.compile("[^A-Za-z_0-9]") does not match
Alpha ==
    {"a", "b", "c", "d", "e", "f", "g", "h", "i", "j", "k", "l", "m", "n", "o",
     "p", "q", "r", "s", "t", "u", "v", "w", "x", "y", "z",
     "A", "B", "C", "D", "E", "F", "G", "H", "I", "J", "K", "L", "M", "N", "O",
     "P", "Q", "R", "S", "T", "U", "V", "W", "X", "Y", "Z",
     "_", "0", "1", "2", "3", "4", "5", "6", "7", "8", "9"}

\* NON_ALPHA.split(content): a token ends at every character that is not in
\* Alpha, so k such characters give k + 1 tokens, some of them empty
RECURSIVE SplitFrom(_, _, _)
SplitFrom(content, i, cur) ==
    IF i > Len(content) THEN <<cur>>
    ELSE IF content[i] \notin Alpha
         THEN <<cur>> \o SplitFrom(content, i + 1, <<>>)
         ELSE SplitFrom(content, i + 1, Append(cur, content[i]))

Split(content) == SplitFrom(content, 1, <<>>)

\* sha1_hash32(token.encode("utf-8")): the first four bytes of the SHA-1
\* digest, read as a little-endian integer; the digests of the shingles the
\* records of ContentPool can produce
sha1_hash32(token) ==
    CASE token = <<>> -> <<218, 57, 163, 238>>
      [] token = <<"a">> -> <<134, 247, 228, 55>>
      [] token = <<"b">> -> <<233, 215, 31, 94>>
      [] token = <<"a", " ", "a">> -> <<30, 80, 244, 116>>
      [] token = <<"a", " ", "b">> -> <<125, 189, 233, 53>>
      [] token = <<"a", " ", "a", " ", "a">> -> <<72, 228, 77, 225>>
      [] token = <<"a", " ", "a", " ", "b">> -> <<218, 230, 249, 38>>
      [] token = <<"a", " ", "a", " ", "a", " ", "a">> -> <<199, 97, 138, 26>>
      [] token = <<"a", " ", "a", " ", "a", " ", "b">> -> <<235, 14, 7, 139>>
      [] token = <<"a", " ", "a", " ", "a", " ", "a", " ", "a">> -> <<218, 39, 52, 243>>
      [] token = <<"a", " ", "a", " ", "a", " ", "a", " ", "b">> -> <<143, 39, 102, 225>>

\* the records of the corpus: "", "a b", "a a a a a", "a a a a b"
ContentPool ==
    {<<>>,
     <<"a", " ", "b">>,
     <<"a", " ", "a", " ", "a", " ", "a", " ", "a">>,
     <<"a", " ", "a", " ", "a", " ", "a", " ", "b">>}

\* RNG.randint(1, MERSENNE_PRIME), RNG.randint(0, MERSENNE_PRIME): pairs
\* (a, b) with 1 <= a < 2^61 - 1 and 0 <= b < 2^61 - 1.  The first is
\* (1, 2^32 - 1 - sha1_hash32("a a a")), the second
\* (256711980439665054, 1709899044117486289).
PermSamples ==
    {<< <<1, 0, 0, 0, 0, 0, 0, 0>>, <<183, 27, 178, 30, 0, 0, 0, 0>> >>,
     << <<158, 121, 177, 163, 47, 6, 144, 3>>, <<209, 26, 103, 6, 31, 200, 186, 23>> >>}

\* hv = np.array([sha1_hash32(token) for token in tokens], dtype=np.uint64)
Widen(h) == [i \in 1 .. U64 |-> Digit(h, i)]

\* tokens = {" ".join(t) for t in ngrams(NON_ALPHA.split(content), ngram_size)}
Shingles(content) == ShingleSet(ngrams(Split(content), ngram, DefaultMinLength))

\* the minimum of a non-empty set of integers
Least(S) == CHOOSE x \in S : \A y \in S : ~Less(y, x)

\* hashvalues = np.vstack([phv, hashvalues]).min(axis=0), entry k
HashValue(content, k) ==
    Least({MAX_HASH} \cup
          {Permute(Widen(sha1_hash32(t)), PERMUTATIONS[1][k], PERMUTATIONS[2][k], U64) :
               t \in Shingles(content)})

\* hashvalues[k].byteswap(): the bytes of the value, highest first
ByteSwap(x) == [i \in 1 .. Len(x) |-> x[Len(x) + 1 - i]]

RECURSIVE Concat(_, _, _)
Concat(f, from, to) ==
    IF from > to THEN <<>> ELSE f[from] \o Concat(f, from + 1, to)

\* HASH_RANGES = [(i * R, (i + 1) * R) for i in range(B)]
HASH_RANGES == [i \in 1 .. B |-> <<(i - 1) * R, i * R>>]

\* Hs = [bytes(hashvalues[start:end].byteswap().data) for start, end in hashranges]
embed_func(content, idx) ==
    LET hashvalues == [k \in 1 .. num_perm |-> ByteSwap(HashValue(content, k))]
    IN [id |-> idx,
        signatures |-> [i \in 1 .. B |->
                          Concat(hashvalues, HASH_RANGES[i][1] + 1, HASH_RANGES[i][2])]]

----------------------------------------------------------------------------
(* text_dedup.utils.UnionFind *)

RECURSIVE Root(_, _)
Root(p, x) == IF p[x] = x THEN x ELSE Root(p, p[x])

RECURSIVE PathFrom(_, _)
PathFrom(p, x) == IF p[x] = x THEN {x} ELSE {x} \cup PathFrom(p, p[x])

\* uf.find(x), its effect on parent: the path from x is compressed
Compress(p, x) ==
    LET path == PathFrom(p, x)
        root == Root(p, x)
    IN [y \in DOMAIN p |-> IF y \in path THEN root ELSE p[y]]

\* uf.union(x, y): the larger root is attached under the smaller
Union(p, x, y) ==
    LET rx == Root(p, x)
        ry == Root(p, y)
        q  == Compress(Compress(p, x), y)
    IN IF rx = ry THEN q ELSE [q EXCEPT ![Max(rx, ry)] = Min(rx, ry)]

----------------------------------------------------------------------------
(* minhash.py: the pipeline *)

\* band keys handed to the clustering when the fingerprints are given
KeySamples ==
    {<<0, 0, 0, 0, 255, 255, 255, 255>>, <<0, 0, 0, 0, 1, 2, 3, 4>>}

\* a record whose content is not looked at
SomeContent == <<"?">>

FuzzyIds == 0 .. (Len(ds) - 1)

ResetFuzzy ==
    /\ HASH_TABLES = [i \in 1 .. B |-> <<>>]
    /\ table_idx = 1
    /\ visited = {}
    /\ parent = [i \in FuzzyIds |-> i]
    /\ clusters = <<>>
    /\ final_data = <<>>
    /\ batch_size = 1
    /\ IdleExact
    /\ IdleNgrams
    /\ loop_b = 0
    /\ loop_r = 0
    /\ min_error = 0
    /\ opt = <<0, 0>>
    /\ errors = <<>>

\* B, R = optimal_param(args.threshold, args.num_perm): some candidate of
\* the sweep; PERMUTATIONS: num_perm pairs drawn by RNG
InitFuzzy ==
    /\ pc = "MinHashing"
    /\ \E size \in 1 .. MaxDocs : ds \in [1 .. size -> ContentPool]
    /\ num_perm \in 1 .. MaxSig
    /\ B \in 1 .. num_perm
    /\ R \in 1 .. (num_perm \div B)
    /\ \E perms \in [1 .. num_perm -> PermSamples] :
          PERMUTATIONS = << [k \in 1 .. num_perm |-> perms[k][1]],
                            [k \in 1 .. num_perm |-> perms[k][2]] >>
    /\ embedded = <<>>
    /\ ResetFuzzy

\* the state after the MinHashing stage, for any fingerprints
InitCluster ==
    /\ pc = "Indexing"
    /\ \E size \in 1 .. MaxDocs : ds = [i \in 1 .. size |-> SomeContent]
    /\ num_perm = 0
    /\ B \in 1 .. MaxBands
    /\ R = 1
    /\ PERMUTATIONS = <<>>
    /\ \E sigs \in [1 .. Len(ds) -> [1 .. B -> KeySamples]] :
          embedded = [i \in 1 .. Len(ds) |-> [id |-> i - 1, signatures |-> sigs[i]]]
    /\ ResetFuzzy

\* with timer("MinHashing"): embedded = ds.map(function=embed_func, ...,
\* with_indices=True)
MinHashing ==
    /\ pc = "MinHashing"
    /\ embedded' = [i \in 1 .. Len(ds) |-> embed_func(ds[i], i - 1)]
    /\ pc' = "Indexing"
    /\ UNCHANGED <<ds, num_perm, B, R, PERMUTATIONS, HASH_TABLES, table_idx,
                   visited, parent, clusters, final_data, outsideFuzzy>>

\* hashtable[H].add(key)
TableAdd(hashtable, H, key) ==
    IF H \in DOMAIN hashtable
    THEN [hashtable EXCEPT ![H] = @ \cup {key}]
    ELSE hashtable @@ (H :> {key})

\* for key, Hs in zip(batch["__id__"], batch["__signatures__"]):
\*     for H, hashtable in zip(Hs, HASH_TABLES): hashtable[H].add(key)
\* over the batches in order, that is over the records in order
RECURSIVE IndexFrom(_, _, _)
IndexFrom(tables, emb, j) ==
    IF j > Len(emb) THEN tables
    ELSE IndexFrom([i \in 1 .. Len(tables) |->
                       TableAdd(tables[i], emb[j].signatures[i], emb[j].id)],
                   emb, j + 1)

Indexing ==
    /\ pc = "Indexing"
    /\ HASH_TABLES' = IndexFrom(HASH_TABLES, embedded, 1)
    /\ pc' = "Clustering"
    /\ UNCHANGED <<ds, num_perm, B, R, PERMUTATIONS, embedded, table_idx,
                   visited, parent, clusters, final_data, outsideFuzzy>>

\* a plausible slip: buckets of two are skipped as well
SkipsPairs(cluster) == Cardinality(cluster) <= 2

\* if len(cluster) <= 1: continue
Skips(cluster) == Cardinality(cluster) <= 1

\* the orders in which `for x in cluster` can visit a set
Orders(cluster) ==
    {o \in [1 .. Cardinality(cluster) -> cluster] :
        \A i, j \in DOMAIN o : i # j => o[i] # o[j]}

\* for x in cluster: uf.union(x, idx)
RECURSIVE UnionAll(_, _, _, _)
UnionAll(p, order, idx, i) ==
    IF i > Len(order) THEN p
    ELSE UnionAll(Union(p, order[i], idx), order, idx, i + 1)

\* one pass through the body of `for cluster in table.values()`, for a
\* bucket of the current table not handled yet
ClusterBucket ==
    /\ pc = "Clustering"
    /\ table_idx <= B
    /\ \E H \in DOMAIN HASH_TABLES[table_idx] \ visited :
          LET cluster == HASH_TABLES[table_idx][H] IN
          /\ visited' = visited \cup {H}
          /\ \/ /\ Skips(cluster)
                /\ UNCHANGED parent
             \/ /\ ~Skips(cluster)
                /\ \E order \in Orders(cluster) :
                      parent' = UnionAll(parent, order, SetMin(cluster), 1)
    /\ UNCHANGED <<pc, ds, num_perm, B, R, PERMUTATIONS, embedded, HASH_TABLES,
                   table_idx, clusters, final_data, outsideFuzzy>>

\* for table in HASH_TABLES: the step to the next table
NextTable ==
    /\ pc = "Clustering"
    /\ table_idx <= B
    /\ visited = DOMAIN HASH_TABLES[table_idx]
    /\ table_idx' = table_idx + 1
    /\ visited' = {}
    /\ UNCHANGED <<pc, ds, num_perm, B, R, PERMUTATIONS, embedded, HASH_TABLES,
                   parent, clusters, final_data, outsideFuzzy>>

\* the clustering loops have ended
Clustered == pc \in {"Finding", "Filtering", "done"}

EndClustering ==
    /\ pc = "Clustering"
    /\ table_idx > B
    /\ pc' = "Finding"
    /\ UNCHANGED <<ds, num_perm, fuzzyVars, outsideFuzzy>>

\* ds = ds.map(function=lambda _, idx: {"__cluster__": uf.find(idx)}, ...)
\* in the processes of the pool, which work on their own copies of uf
FindClusters ==
    /\ pc = "Finding"
    /\ clusters' = [idx \in FuzzyIds |-> Root(parent, idx)]
    /\ pc' = "Filtering"
    /\ UNCHANGED <<ds, num_perm, B, R, PERMUTATIONS, embedded, HASH_TABLES,
                   table_idx, visited, parent, final_data, outsideFuzzy>>

RECURSIVE KeptFrom(_, _)
KeptFrom(cl, idx) ==
    IF idx \notin DOMAIN cl THEN <<>>
    ELSE (IF cl[idx] = idx THEN <<idx>> ELSE <<>>) \o KeptFrom(cl, idx + 1)

\* final_data = ds.filter(function=lambda record, idx:
\*     record["__cluster__"] == idx, with_indices=True)
FilterClusters ==
    /\ pc = "Filtering"
    /\ final_data' = KeptFrom(clusters, 0)
    /\ pc' = "done"
    /\ UNCHANGED <<ds, num_perm, B, R, PERMUTATIONS, embedded, HASH_TABLES,
                   table_idx, visited, parent, clusters, outsideFuzzy>>

NextCluster ==
    \/ Indexing
    \/ ClusterBucket
    \/ NextTable
    \/ EndClustering
    \/ FindClusters
    \/ FilterClusters

NextFuzzy == MinHashing \/ NextCluster

SpecCluster == InitCluster /\ [][NextCluster]_vars

SpecFuzzy == InitFuzzy /\ [][NextFuzzy]_vars

----------------------------------------------------------------------------
(* exact_hash.py *)

\* record contents and digests (S1/S2 of the spec: "hello", "world")
Contents == {"hello", "world"}
Digests == {"d0", "d1"}
NoDigest == "none"

LEN_DATASET == Len(ds)
Ids == 0 .. (LEN_DATASET - 1)

\* NUM_SHARDS = int(np.ceil(LEN_DATASET / args.batch_size))
NUM_SHARDS == CeilDiv(LEN_DATASET, batch_size)

\* Dataset.shard(num_shards, index, contiguous=True): the id range
\* [start, end) of shard `index` of a dataset of `len` records.  The first
\* len % num_shards shards are one record longer than the others.
ShardStart(len, num_shards, index) ==
    (len \div num_shards) * index + Min(index, len % num_shards)
ShardEnd(len, num_shards, index) ==
    ShardStart(len, num_shards, index) + (len \div num_shards)
        + (IF index < len % num_shards THEN 1 ELSE 0)

\* LEN_SHARD = len(ds_shard)
LEN_SHARD ==
    ShardEnd(LEN_DATASET, NUM_SHARDS, shard_idx)
        - ShardStart(LEN_DATASET, NUM_SHARDS, shard_idx)

\* Dataset.map(num_proc=NUM_PROC): the pool is no larger than the shard
PoolSize == Min(NUM_PROC, LEN_SHARD)
Ranks == 0 .. (PoolSize - 1)

\* the dataset-wide id of the record at position batch_idx of the shard
RecordId(batch_idx) == ShardStart(LEN_DATASET, NUM_SHARDS, shard_idx) + batch_idx

\* the index the lambda hands to mp_exact_finder
FlagIndex(batch_idx) == LEN_SHARD * shard_idx + batch_idx

\* hash_func(example[args.column].encode("utf-8"))
Digest(id) == hash_func[ds[id + 1]]

RECURSIVE FilterFrom(_, _, _)
FilterFrom(s, keep, i) ==
    IF i > Len(s) THEN <<>>
    ELSE (IF keep[i - 1] THEN <<s[i]>> ELSE <<>>) \o FilterFrom(s, keep, i + 1)

\* ds.filter(lambda _, idx: not flags[idx], with_indices=True)
FilterFlags(s, f) == FilterFrom(s, [i \in DOMAIN f |-> ~f[i]], 1)

InitExact ==
    /\ pc = "Processing"
    /\ \E size \in 1 .. MaxDocs : ds \in [1 .. size -> Contents]
    /\ batch_size \in 1 .. MaxBatch
    /\ hash_func \in [Contents -> Digests]
    /\ ResetExact(ds)
    /\ run = 1
    /\ first_output = <<>>
    /\ IdleNgrams
    /\ IdleParam
    /\ IdleFuzzy

\* for shard_idx in range(0, NUM_SHARDS): ds_shard = ds.shard(...);
\* ds_shard.map(..., num_proc=NUM_PROC) hands each rank a contiguous
\* slice of the shard
StartShard ==
    /\ pc = "Processing"
    /\ shard_idx < NUM_SHARDS
    /\ workers' = [rank \in Ranks |->
                     [batch_idx |-> ShardStart(LEN_SHARD, PoolSize, rank),
                      stop      |-> ShardEnd(LEN_SHARD, PoolSize, rank),
                      st        |-> "check",
                      h         |-> NoDigest,
                      present   |-> FALSE]]
    /\ pc' = "Mapping"
    /\ UNCHANGED <<ds, batch_size, hash_func, flags, shared_hash_dict,
                   shard_idx, inserted, run, first_output, outsideExact>>

\* mp_exact_finder, first half: h = hash_func(...); `h in hash_dict`
\* (one call on the manager proxy)
FinderCheck(rank) ==
    /\ pc = "Mapping"
    /\ workers[rank].st = "check"
    /\ LET d == Digest(RecordId(workers[rank].batch_idx))
       IN workers' = [workers EXCEPT ![rank].h = d,
                                     ![rank].present = (d \in shared_hash_dict),
                                     ![rank].st = "write"]
    /\ UNCHANGED <<pc, ds, batch_size, hash_func, flags, shared_hash_dict,
                   shard_idx, inserted, run, first_output, outsideExact>>

Advance(w) ==
    [w EXCEPT !.batch_idx = @ + 1,
              !.st = IF w.batch_idx + 1 < w.stop THEN "check" ELSE "done"]

\* mp_exact_finder, second half: flags[idx] = True, or hash_dict[h] = True
\* (a second call on the manager proxy)
FinderWrite(rank) ==
    /\ pc = "Mapping"
    /\ workers[rank].st = "write"
    /\ \/ /\ workers[rank].present
          /\ flags' = [flags EXCEPT ![FlagIndex(workers[rank].batch_idx)] = TRUE]
          /\ UNCHANGED <<shared_hash_dict, inserted>>
       \/ /\ ~workers[rank].present
          /\ shared_hash_dict' = shared_hash_dict \cup {workers[rank].h}
          /\ inserted' = inserted \cup {RecordId(workers[rank].batch_idx)}
          /\ UNCHANGED flags
    /\ workers' = [workers EXCEPT ![rank] = Advance(@)]
    /\ UNCHANGED <<pc, ds, batch_size, hash_func, shard_idx, run, first_output,
                   outsideExact>>

\* ds_shard.map returns when every rank has finished its slice
EndShard ==
    /\ pc = "Mapping"
    /\ \A rank \in DOMAIN workers : workers[rank].st = "done"
    /\ shard_idx' = shard_idx + 1
    /\ workers' = <<>>
    /\ pc' = "Processing"
    /\ UNCHANGED <<ds, batch_size, hash_func, flags, shared_hash_dict,
                   inserted, run, first_output, outsideExact>>

\* every shard has been processed; the filter has not run yet
Processed == pc = "Processing" /\ shard_idx = NUM_SHARDS

\* with timer("Filtering"): ds = ds.filter(lambda _, idx: not flags[idx]);
\* with timer("Saving"): ds.save_to_disk(args.output)
Filtering ==
    /\ Processed
    /\ ds' = FilterFlags(ds, flags)
    /\ pc' = "done"
    /\ UNCHANGED <<batch_size, exactVars, outsideExact>>

\* the program is run again, with the same arguments, on what it saved
Rerun ==
    /\ pc = "done"
    /\ run = 1
    /\ first_output' = ds
    /\ run' = 2
    /\ pc' = "Processing"
    /\ flags' = [i \in Ids |-> FALSE]
    /\ shared_hash_dict' = {}
    /\ shard_idx' = 0
    /\ workers' = <<>>
    /\ inserted' = {}
    /\ UNCHANGED <<ds, batch_size, hash_func, outsideExact>>

NextExact ==
    \/ StartShard
    \/ \E rank \in DOMAIN workers : FinderCheck(rank)
    \/ \E rank \in DOMAIN workers : FinderWrite(rank)
    \/ EndShard
    \/ Filtering
    \/ Rerun

SpecExact == InitExact /\ [][NextExact]_vars

----------------------------------------------------------------------------
(* One call of ngrams on every small input *)

NextNgrams == CallNgrams

SpecNgrams == InitNgrams /\ [][NextNgrams]_vars

----------------------------------------------------------------------------
(* Claims about the exact-hash pipeline *)

\* C1 (exact-dedup soundness): once every shard has been processed, no two
\* kept records share a digest.
ExactSoundness ==
    Processed =>
        \A i, j \in Ids :
            (i < j /\ ~flags[i] /\ ~flags[j]) => Digest(i) # Digest(j)

\* C2 (exact-dedup completeness, first occurrence kept): once every shard
\* has been processed, every record i has a kept record j <= i with the
\* same digest.
ExactCompleteness ==
    Processed =>
        \A i \in Ids : \E j \in Ids : j <= i /\ ~flags[j] /\ Digest(j) = Digest(i)

\* C3 (linearizable check-and-insert): over a whole run exactly one record
\* per digest takes the "absent, insert" branch of mp_exact_finder.
LinearizableCheckAndInsert ==
    Processed =>
        \A i \in Ids : Cardinality({j \in inserted : Digest(j) = Digest(i)}) = 1

\* C8 (flag index is the dataset-wide id): the index a worker is about to
\* use for flags is the dataset-wide id of the record it is working on.
FlagIndexIsDatasetId ==
    pc = "Mapping" =>
        \A rank \in DOMAIN workers :
            workers[rank].st # "done" =>
                FlagIndex(workers[rank].batch_idx) = RecordId(workers[rank].batch_idx)

\* C5 (idempotence): the run on the first run's output drops nothing, so
\* its output is the first run's output.
Idempotence ==
    (run = 2 /\ pc = "done") => ds = first_output

----------------------------------------------------------------------------
(* Claims about the shingler *)

\* C6 (shingler case rules): with L tokens, ngrams returns nothing when
\* L < min_length (whatever n is); the one n-gram of all L tokens when
\* min_length <= L < n; otherwise the L - n + 1 contiguous windows of n
\* tokens, in order.  The shingle set holds each distinct window once.
ShinglerCases ==
    pc = "ret" =>
        LET L == Len(sequence) IN
        /\ L < min_length => ngrams_result = <<>>
        /\ (min_length <= L /\ L < n) => ngrams_result = <<sequence>>
        /\ (min_length <= L /\ n <= L) =>
              /\ Len(ngrams_result) = L - n + 1
              /\ \A j \in 1 .. (L - n + 1) :
                    ngrams_result[j] = SubSeq(sequence, j, j + n - 1)
        /\ Cardinality(tokens) = Cardinality(Range(ngrams_result))
        /\ \A j \in DOMAIN ngrams_result : Join(ngrams_result[j]) \in tokens

\* a call in the window case in which two of the windows are equal and
\* collapse in the shingle set
ShinglerCasesWitness ==
    /\ pc = "ret"
    /\ min_length = DefaultMinLength
    /\ Len(sequence) >= min_length
    /\ n = 2
    /\ Len(ngrams_result) = 4
    /\ Cardinality(tokens) = 3

----------------------------------------------------------------------------
(* Claims about optimal_param *)

\* the candidates of the sweep, and the order they are scanned in
Candidates == {c \in (1 .. num_perm) \X (1 .. num_perm) : c[2] <= num_perm \div c[1]}
ScannedBefore(c, d) == c[1] < d[1] \/ (c[1] = d[1] /\ c[2] < d[2])

\* C7 (parameter oracle): optimal_param returns (b, r) with b >= 1, r >= 1
\* and b * r <= num_perm, whose error is no larger than that of any
\* candidate of the sweep, and which is the first scanned among the
\* candidates of that error.
ParameterOracle ==
    pc = "ret" =>
        /\ opt[1] >= 1 /\ opt[2] >= 1 /\ opt[1] * opt[2] <= num_perm
        /\ DOMAIN errors = Candidates
        /\ \A c \in Candidates : errors[opt] <= errors[c]
        /\ \A c \in Candidates : errors[c] = errors[opt] => ~ScannedBefore(c, opt)

\* a sweep whose minimum is reached by a later candidate too, and not by
\* the first candidate
ParameterOracleWitness ==
    /\ pc = "ret"
    /\ opt # <<1, 1>>
    /\ \E c \in Candidates : c # opt /\ errors[c] = errors[opt]

----------------------------------------------------------------------------
(* Claims about the fuzzy pipeline *)

\* two records share a bucket of some band table
CoBucketed(i, j) ==
    \E band \in 1 .. B :
        embedded[i + 1].signatures[band] = embedded[j + 1].signatures[band]

\* the connected component of the records of S under CoBucketed
RECURSIVE Closure(_)
Closure(S) ==
    LET T == S \cup {j \in FuzzyIds : \E i \in S : CoBucketed(i, j)}
    IN IF T = S THEN S ELSE Closure(T)

Component(i) == Closure({i})

\* C4 (cluster root is the minimum id): uf.find(i) <= i at every moment;
\* once the buckets of every table have been unioned, uf.find(i) is the
\* least id of the connected component of i, and the filter keeps exactly
\* the least id of every component, in ascending order, isolated records
\* included.
ClusterRootIsMin ==
    /\ \A i \in FuzzyIds : Root(parent, i) <= i
    /\ Clustered => \A i \in FuzzyIds : Root(parent, i) = SetMin(Component(i))
    /\ pc \in {"Filtering", "done"} =>
          \A i \in FuzzyIds : clusters[i] = SetMin(Component(i))
    /\ pc = "done" =>
          /\ Range(final_data) = {i \in FuzzyIds : i = SetMin(Component(i))}
          /\ \A k \in 1 .. (Len(final_data) - 1) : final_data[k] < final_data[k + 1]
          /\ \A i \in FuzzyIds : Component(i) = {i} => i \in Range(final_data)

\* three records joined through two tables, {1, 2} in one and {0, 1} in a
\* later one, so that the root of 2 is reached through 1
ClusterRootIsMinWitness ==
    /\ pc = "done"
    /\ Len(ds) = 3
    /\ parent[2] = 1
    /\ parent[1] = 0
    /\ ~CoBucketed(0, 2)
    /\ final_data = <<0>>

\* a record with fewer than 5 tokens
Short(i) == Len(Split(ds[i + 1])) < DefaultMinLength
ShortIds == {i \in FuzzyIds : Short(i)}

\* the band key of R signature entries that are all 2^32 - 1
AllOnesKey == Concat([k \in 1 .. R |-> ByteSwap(MAX_HASH)], 1, R)

\* some record of five tokens or more has the all-ones key in some band
LongRecordInAllOnesBucket ==
    \E i \in FuzzyIds \ ShortIds :
        \E band \in 1 .. B : embedded[i + 1].signatures[band] = AllOnesKey

NoWrapAround ==
    pc # "MinHashing" =>
        \A i \in 1 .. Len(ds) : \A t \in Shingles(ds[i]) : \A k \in 1 .. num_perm :
            SameValue(
                Permute(Widen(sha1_hash32(t)), PERMUTATIONS[1][k], PERMUTATIONS[2][k], U64),
                Permute(Widen(sha1_hash32(t)), PERMUTATIONS[1][k], PERMUTATIONS[2][k], Unbounded))

=============================================================================
